---- MODULE Spec2Model ----
(***************************************************************************)
(* A model of the deet debugger (proj-1/deet): the command loop of         *)
(* Debugger::run, the Inferior operations it drives, and the byte patch    *)
(* primitive write_byte, and the rate limiter of the balancebeam proxy      *)
(* (proj-2/balancebeam), checked with TLC.                                 *)
(*                                                                         *)
(* A 64-bit machine word is a function 0..7 -> 0..255, byte 0 the least    *)
(* significant (x86-64 is little-endian), because TLC's integers are 32    *)
(* bits wide. The shift and bitwise operators below work on that form and  *)
(* are exact for every shift count 0..63.                                  *)
(***************************************************************************)
EXTENDS Integers, Sequences, FiniteSets, TLC

VARIABLES
    cmd,            \* where Debugger::run is: "prompt", "panicked", "hung", "quit"
    break_points,   \* Debugger.break_points : Vec<Breakpoint>
    inferior,       \* Debugger.inferior : Option<Inferior>
    child,          \* the OS's state of the process self.inferior refers to
    live,           \* pids of the child processes that are alive
    nextPid,        \* the pid the next successful spawn gets
    held,           \* pids of the processes self.inferior has referred to
    ops,            \* what the last command did, in order (calls and prints)
    wb_proc,        \* write_byte specification: the process whose memory is patched
    wb_addr,        \* write_byte specification: the address patched
    wb_orig,        \* write_byte specification: the memory before the first call
    wb_saved,       \* write_byte specification: the byte the first call returned
    wb_pc,          \* write_byte specification: "init", "patched", "restored"
    rl_max,         \* balancebeam: ProxyState.max_requests_per_minute
    rl_window,      \* balancebeam: ProxyState.rate_sliding_window, ip -> deque
    rl_lock,        \* balancebeam: the task holding rate_sliding_window's Mutex, or 0
    rl_task,        \* balancebeam: each handle_connection task's position and `now`
    rl_clock,       \* balancebeam: Instant::now(), in seconds
    rl_log,         \* balancebeam: the requests decided so far, in order
    st_pre,         \* step_to_next_line specification: the process before the call
    bk_target,      \* Break specification: the argument of the Break command
    bk_before,      \* Break specification: self.break_points before the command
    up_live,        \* balancebeam failover: ProxyState.liveing_upstreams
    up_task,        \* balancebeam failover: each connect_to_upstream call's position
    up_checks,      \* balancebeam failover: the rounds active_health_check has done
    up_log,         \* balancebeam failover: the last removal made, if any
    pm_input,       \* parallel_map: the input_vec it was called with
    pm_num_threads, \* parallel_map: num_threads
    pm_pc,          \* parallel_map: where the calling thread is
    pm_input_vec,   \* parallel_map: input_vec, popped from the back
    pm_idx,         \* parallel_map: idx
    pm_s1,          \* parallel_map: the crossbeam channel's queue of (val, idx)
    pm_worker,      \* parallel_map: each spawned thread's position and (val, idx)
    pm_rx,          \* parallel_map: the mpsc channel's queue of (f(val), idx)
    pm_output_vec   \* parallel_map: output_vec

dbg_vars == <<cmd, break_points, inferior, child, live, nextPid, held, ops>>
wb_vars == <<wb_proc, wb_addr, wb_orig, wb_saved, wb_pc>>
rl_vars == <<rl_max, rl_window, rl_lock, rl_task, rl_clock, rl_log>>
st_vars == <<st_pre>>
bk_vars == <<bk_target, bk_before>>
up_vars == <<up_live, up_task, up_checks, up_log>>
pm_vars == <<pm_input, pm_num_threads, pm_pc, pm_input_vec, pm_idx, pm_s1,
             pm_worker, pm_rx, pm_output_vec>>
vars == <<cmd, break_points, inferior, child, live, nextPid, held, ops,
          wb_proc, wb_addr, wb_orig, wb_saved, wb_pc,
          rl_max, rl_window, rl_lock, rl_task, rl_clock, rl_log,
          st_pre, bk_target, bk_before, up_live, up_task, up_checks, up_log,
          pm_input, pm_num_threads, pm_pc, pm_input_vec, pm_idx, pm_s1,
          pm_worker, pm_rx, pm_output_vec>>

\* Option<T>: None is the empty sequence, Some(x) the sequence of x alone.
None == <<>>
Some(x) == <<x>>
IsSome(o) == Len(o) = 1
Unwrap(o) == o[1]

(***************************************************************************)
(* Bytes and 64-bit words.                                                 *)
(***************************************************************************)
Byte == 0..255

\* size_of::<usize>() on x86-64, the only target ptrace::getregs' rip/rbp exist on.
size_of_usize == 8

Pow2(n) ==
    CASE n = 0 -> 1 [] n = 1 -> 2 [] n = 2 -> 4 [] n = 3 -> 8 [] n = 4 -> 16
      [] n = 5 -> 32 [] n = 6 -> 64 [] n = 7 -> 128 [] n = 8 -> 256

RECURSIVE BitsAnd(_, _, _)
BitsAnd(a, b, n) ==
    IF n = 0 \/ a = 0 \/ b = 0 THEN 0
    ELSE (a % 2) * (b % 2) + 2 * BitsAnd(a \div 2, b \div 2, n - 1)

\* `val as u64`, and the literal 0xff typed u64 by the word it is combined with.
U64(x) == [i \in 0..7 |-> IF i = 0 THEN x ELSE 0]

ByteAt(w, j) == IF j \in 0..7 THEN w[j] ELSE 0

\* w >> n on u64, 0 <= n <= 63.
Shr64(w, n) ==
    LET q == n \div 8
        r == n % 8
    IN  [i \in 0..7 |->
            (ByteAt(w, i + q) \div Pow2(r))
            + ((ByteAt(w, i + q + 1) * Pow2(8 - r)) % 256)]

\* w << n on u64, 0 <= n <= 63.
Shl64(w, n) ==
    LET q == n \div 8
        r == n % 8
    IN  [i \in 0..7 |->
            ((ByteAt(w, i - q) * Pow2(r)) % 256)
            + (ByteAt(w, i - q - 1) \div Pow2(8 - r))]

And64(v, w) == [i \in 0..7 |-> BitsAnd(v[i], w[i], 8)]

Not64(w) == [i \in 0..7 |-> 255 - w[i]]

\* v | w = v + w - (v & w), byte by byte (no carries cross a byte).
Or64(v, w) == [i \in 0..7 |-> v[i] + w[i] - BitsAnd(v[i], w[i], 8)]

\* `x as u8`: the low byte.
AsU8(w) == w[0]

\* addr & (-(size_of::<usize>() as isize) as usize): -8 is ...11111000, so the
\* low three bits of addr are cleared.
align_addr_to_word(addr) == addr - (addr % size_of_usize)

(***************************************************************************)
(* The traced process as ptrace sees it: p.gone (the process was reaped    *)
(* or killed: every ptrace call fails with ESRCH), p.mem (its mapped       *)
(* bytes), p.rip and p.rbp.                                                *)
(***************************************************************************)
Mapped(p, a) == \A i \in 0..(size_of_usize - 1) : (a + i) \in DOMAIN p.mem

\* ptrace::read / PTRACE_PEEKDATA.
ptrace_read_ok(p, a) == ~p.gone /\ Mapped(p, a)

ptrace_read(p, a) == [i \in 0..7 |-> p.mem[a + i]]

\* ptrace::write / PTRACE_POKEDATA: the whole word at a.
ptrace_write(p, a, w) ==
    [p EXCEPT !.mem = [x \in DOMAIN p.mem |->
                          IF x \in a..(a + 7) THEN w[x - a] ELSE p.mem[x]]]

\* Inferior::write_byte with `updated_word = word | (val << 8 * byte_offset)`:
\* the mask step forgotten.
write_byte_no_mask(p, addr, val) ==
    LET aligned_addr == align_addr_to_word(addr)
        byte_offset == addr - aligned_addr
    IN  IF ~ptrace_read_ok(p, aligned_addr)
        THEN [ok |-> FALSE, byte |-> 0, p |-> p]
        ELSE LET word == ptrace_read(p, aligned_addr)
                 orig_byte == And64(Shr64(word, 8 * byte_offset), U64(255))
                 updated_word == Or64(word, Shl64(U64(val), 8 * byte_offset))
             IN  [ok |-> TRUE, byte |-> AsU8(orig_byte),
                  p |-> ptrace_write(p, aligned_addr, updated_word)]

\* Inferior::write_byte with `orig_byte = word & 0xff`: the shift down to the
\* targeted byte forgotten.
write_byte_no_shift(p, addr, val) ==
    LET aligned_addr == align_addr_to_word(addr)
        byte_offset == addr - aligned_addr
    IN  IF ~ptrace_read_ok(p, aligned_addr)
        THEN [ok |-> FALSE, byte |-> 0, p |-> p]
        ELSE LET word == ptrace_read(p, aligned_addr)
                 orig_byte == And64(word, U64(255))
                 masked_word == And64(word, Not64(Shl64(U64(255), 8 * byte_offset)))
                 updated_word == Or64(masked_word, Shl64(U64(val), 8 * byte_offset))
             IN  [ok |-> TRUE, byte |-> AsU8(orig_byte),
                  p |-> ptrace_write(p, aligned_addr, updated_word)]

\* Inferior::write_byte. The result is Ok(byte) or Err (ok = FALSE); a failed
\* read returns before the write (the ? operator).
write_byte(p, addr, val) ==
    LET aligned_addr == align_addr_to_word(addr)
        byte_offset == addr - aligned_addr
    IN  IF ~ptrace_read_ok(p, aligned_addr)
        THEN [ok |-> FALSE, byte |-> 0, p |-> p]
        ELSE LET word == ptrace_read(p, aligned_addr)
                 orig_byte == And64(Shr64(word, 8 * byte_offset), U64(255))
                 masked_word == And64(word, Not64(Shl64(U64(255), 8 * byte_offset)))
                 updated_word == Or64(masked_word, Shl64(U64(val), 8 * byte_offset))
             IN  [ok |-> TRUE, byte |-> AsU8(orig_byte),
                  p |-> ptrace_write(p, aligned_addr, updated_word)]

(***************************************************************************)
(* The target executable the debugger is started on: a program of two      *)
(* functions, main calling foo, with the startup stub before main. Code    *)
(* occupies the words at 16 and 24, the stack the words at 64..88.         *)
(*                                                                         *)
(*   16 _start: nop            (no debug information)                      *)
(*   17 main:   push %rbp      line 3                                      *)
(*   18         mov %rsp,%rbp  line 3   (3 bytes)                          *)
(*   21         call foo       line 4   (2 bytes)                          *)
(*   23         ret            line 5   (the program exits)                *)
(*   24 foo:    push %rbp      line 8                                      *)
(*   25         mov %rsp,%rbp  line 8   (3 bytes)                          *)
(*   28         leave          line 9                                      *)
(*   29         ret            line 9                                      *)
(***************************************************************************)
trap_byte == 204

CodeAddrs == 16..31
StackAddrs == 64..95

CodeImage ==
    [a \in CodeAddrs |->
        CASE a = 16 -> 144
          [] a \in {17, 24} -> 85
          [] a \in {18, 25} -> 72
          [] a \in {19, 26} -> 137
          [] a \in {20, 27} -> 229
          [] a = 21 -> 232
          [] a = 22 -> 1
          [] a \in {23, 29} -> 195
          [] a = 28 -> 201
          [] OTHER -> 0]

\* foo's frame is at 64 (saved %rbp 80, return address 23), main's at 80
\* (saved %rbp 0, return address 8, in the C runtime: no debug information).
StackImage ==
    [a \in StackAddrs |->
        CASE a = 64 -> 80
          [] a = 72 -> 23
          [] a = 88 -> 8
          [] OTHER -> 0]

TargetImage == [a \in CodeAddrs \cup StackAddrs |->
                   IF a \in CodeAddrs THEN CodeImage[a] ELSE StackImage[a]]

\* The instructions in the order the program executes them.
ExecPath == <<16, 17, 18, 21, 24, 25, 28, 29, 23>>

InstrStarts == {ExecPath[i] : i \in 1..Len(ExecPath)}

PathIndex(a) == CHOOSE i \in 1..Len(ExecPath) : ExecPath[i] = a

\* %rbp once the instruction at a has executed (None: unchanged).
RbpAfter(a, rbp) ==
    CASE a = 18 -> 80
      [] a = 25 -> 64
      [] a = 28 -> 80
      [] OTHER -> rbp

ExitCodes == {0, 3}

\* The process right after exec, stopped by the exec SIGTRAP.
FreshProcess == [gone |-> FALSE, mem |-> TargetImage, rip |-> 16, rbp |-> 0]

\* The C runtime that calls main keeps no frame pointers: the %rbp main saves in
\* its frame is whatever the runtime left in the register, 0 or a stack address,
\* here that of main's own frame.
RuntimeRbp == {0, 80}

\* A process that is gone: its registers and memory can no longer be read, so
\* every gone process is this one.
NoProcess == [gone |-> TRUE, mem |-> TargetImage, rip |-> 16, rbp |-> 0]

(***************************************************************************)
(* What the CPU and the kernel do with the process. A wait status is       *)
(*   [st |-> "Stopped", sig, code |-> 0, p]  (p.rip is where it stopped)   *)
(*   [st |-> "Exited" | "Signaled" | "Err", ...]                           *)
(* A process that exited or was killed is reaped by the waitpid that       *)
(* reports it, so it is gone afterwards.                                   *)
(***************************************************************************)
Stopped(sig, p) == [st |-> "Stopped", sig |-> sig, code |-> 0, p |-> p]
Exited(code, p) == [st |-> "Exited", sig |-> "-", code |-> code, p |-> NoProcess]
Signaled(sig, p) == [st |-> "Signaled", sig |-> sig, code |-> 0, p |-> NoProcess]
WaitErr(p) == [st |-> "Err", sig |-> "-", code |-> 0, p |-> p]

\* The next instruction start after address a in memory order, if any.
NextStartAfter(a) ==
    IF \E b \in InstrStarts : b > a
    THEN CHOOSE b \in InstrStarts : b > a /\ \A c \in InstrStarts : c > a => b <= c
    ELSE a

\* The outcomes of executing exactly one instruction at p.rip.
ExecOne(p) ==
    IF p.rip \notin DOMAIN p.mem
    THEN {Stopped("SIGSEGV", p)}
    ELSE IF p.mem[p.rip] = trap_byte
    THEN \* int3: the trap is reported with rip one past the trap byte
         {Stopped("SIGTRAP", [p EXCEPT !.rip = p.rip + 1])}
    ELSE IF p.rip \notin InstrStarts
    THEN \* the middle of an instruction: the bytes decode to something else,
         \* which faults or happens to run on to the next instruction
         {Stopped("SIGSEGV", p), Stopped("SIGILL", p),
          Stopped("SIGTRAP", [p EXCEPT !.rip = NextStartAfter(p.rip)])}
    ELSE IF PathIndex(p.rip) = Len(ExecPath)
    THEN {Exited(c, p) : c \in ExitCodes}
    ELSE {Stopped("SIGTRAP",
                  [p EXCEPT !.rip = ExecPath[PathIndex(p.rip) + 1],
                            !.rbp = RbpAfter(p.rip, p.rbp)])}

\* ptrace::step then waitpid.
StepAndWait(p) == IF p.gone THEN {WaitErr(p)} ELSE ExecOne(p)

\* Where the target is when the user's ^C reaches it: at the startup stub, at
\* main's first instruction, or in foo: past its first instruction or in its body.
InterruptPoints == {16, 17, 25, 28}

\* The outcomes of resuming p until it next stops or ends: SIGINT stops the
\* tracee at an interrupt point, SIGKILL ends it at any instruction boundary.
RECURSIVE RunFrom(_)
RunFrom(p) ==
    {Stopped("SIGINT", p) : x \in {p.rip} \cap InterruptPoints}
    \cup {Signaled("SIGKILL", p)}
    \cup
    (LET one == ExecOne(p)
     IN  UNION {IF r.st = "Stopped" /\ r.sig = "SIGTRAP" /\ p.mem[p.rip] # trap_byte
                THEN RunFrom(r.p)
                ELSE {r} : r \in one})

\* ptrace::cont then waitpid.
ContAndWait(p) == IF p.gone THEN {WaitErr(p)} ELSE RunFrom(p)

(***************************************************************************)
(* The Symbol Resolver (crate::dwarf_data::DwarfData), for the target      *)
(* above. An address inside a line's instructions resolves to that line.   *)
(***************************************************************************)
get_function_from_addr(a) ==
    CASE a \in 17..23 -> Some("main")
      [] a \in 24..29 -> Some("foo")
      [] OTHER -> None

get_line_from_addr(a) ==
    CASE a \in 17..20 -> Some(3)
      [] a \in 21..22 -> Some(4)
      [] a = 23 -> Some(5)
      [] a \in 24..27 -> Some(8)
      [] a \in 28..29 -> Some(9)
      [] OTHER -> None

get_addr_for_line(n) ==
    CASE n = 3 -> Some(17)
      [] n = 4 -> Some(21)
      [] n = 5 -> Some(23)
      [] n = 8 -> Some(24)
      [] n = 9 -> Some(28)
      [] OTHER -> None

get_addr_for_function(name) ==
    CASE name = <<"m", "a", "i", "n">> -> Some(17)
      [] name = <<"f", "o", "o">> -> Some(24)
      [] OTHER -> None

(***************************************************************************)
(* The Inferior's operations. They pass along                              *)
(*   s = [pid, p, bps, live, ops, panic]:                                  *)
(* self.pid(), the process, self.break_points (address -> orig_byte), the  *)
(* pids alive, the log of the command so far, and whether an unwrap() has  *)
(* panicked.                                                               *)
(***************************************************************************)
\* A log entry: the call or print, its text (a message, a wait status, the place
\* of a panic), the signal, an address or pid, a value, and whether it succeeded.
Ev(op, txt, sig, a, v, ok) ==
    [op |-> op, txt |-> txt, sig |-> sig, a |-> a, v |-> v, ok |-> ok]

Log(s, e) == [s EXCEPT !.ops = Append(@, e)]

Panic(s, where) == [Log(s, Ev("panic", where, "-", 0, 0, FALSE)) EXCEPT !.panic = TRUE]

\* A set of addresses as the sequence a loop visits. HashMap::keys() gives no
\* order; the writes are to distinct bytes, so every order has the same result.
RECURSIVE SortedSeq(_)
SortedSeq(S) ==
    IF S = {} THEN <<>>
    ELSE LET m == CHOOSE x \in S : \A y \in S : x <= y
         IN  <<m>> \o SortedSeq(S \ {m})

\* self.write_byte(addr, val), logged.
do_write_byte(s, addr, val) ==
    LET r == write_byte(s.p, addr, val)
    IN  [ok |-> r.ok, byte |-> r.byte,
         s |-> Log([s EXCEPT !.p = r.p], Ev("write_byte", "", "-", addr, val, r.ok))]

\* ptrace::getregs(self.pid()), logged.
do_getregs(s) == Log(s, Ev("getregs", "", "-", s.p.rip, s.p.rbp, ~s.p.gone))

\* The first loop of set_break_points: write_byte(*addr, 0xcc).unwrap() for
\* every address, collecting the bytes returned.
RECURSIVE write_traps(_, _, _)
write_traps(s, addrs, orig_bytes) ==
    IF addrs = <<>> THEN [s |-> s, orig_bytes |-> orig_bytes]
    ELSE LET r == do_write_byte(s, Head(addrs), trap_byte)
         IN  IF ~r.ok
             THEN [s |-> Panic(r.s, "set_break_points"), orig_bytes |-> orig_bytes]
             ELSE write_traps(r.s, Tail(addrs), Append(orig_bytes, r.byte))

\* Inferior::set_break_points.
set_break_points(s) ==
    LET addrs == SortedSeq(DOMAIN s.bps)
        r == write_traps(s, addrs, <<>>)
    IN  IF r.s.panic THEN r.s
        ELSE [r.s EXCEPT !.bps =
                 [a \in DOMAIN s.bps |->
                     r.orig_bytes[CHOOSE i \in 1..Len(addrs) : addrs[i] = a]]]

\* Inferior::wait's result for status w, logged; a Stopped status reads the
\* registers for rip.
do_wait(s, w) ==
    LET s1 == Log([s EXCEPT !.p = w.p,
                            !.live = IF w.st \in {"Exited", "Signaled"}
                                     THEN @ \ {s.pid} ELSE @],
                  Ev("wait", w.st, w.sig, w.p.rip, w.code, w.st # "Err"))
    IN  IF w.st = "Stopped" THEN do_getregs(s1) ELSE s1

\* Inferior::check_stop_at_b: the states it can return in.
check_stop_at_b(s) ==
    LET s0 == do_getregs(s)
        bp_addr == s.p.rip
    IN  IF s.p.gone THEN {Panic(s0, "check_stop_at_b")}
        ELSE IF bp_addr \notin DOMAIN s.bps THEN {s0}
        ELSE LET s1 == Log(s0, Ev("step", "", "-", bp_addr, s.p.mem[bp_addr], TRUE))
             IN  {LET s2 == do_wait(s1, w)
                  IN  CASE w.st \in {"Exited", "Signaled"} -> s2
                        [] w.st = "Stopped" -> do_write_byte(s2, bp_addr, trap_byte).s
                        [] OTHER -> Log(s2, Ev("print", "Error waiting for child", "-", 0, 0, TRUE))
                  : w \in StepAndWait(s.p)}

\* Inferior::set_back_rip.
set_back_rip(s) ==
    LET s0 == do_getregs(s)
        bp_addr == s.p.rip - 1
    IN  IF s.p.gone THEN Panic(s0, "set_back_rip")
        ELSE IF bp_addr \notin DOMAIN s.bps THEN s0
        ELSE LET s1 == do_write_byte(s0, bp_addr, s.bps[bp_addr]).s
             IN  Log([s1 EXCEPT !.p.rip = s.p.rip - 1],
                     Ev("setregs", "", "-", s.p.rip - 1, s.p.rbp, TRUE))

\* The rest of continue_proc once the wait after ptrace::cont returned w.
after_cont(s, w) ==
    LET s1 == do_wait(Log(s, Ev("cont", "", "-", s.p.rip, 0, ~s.p.gone)), w)
    IN  CASE w.st = "Exited" ->
                Log(s1, Ev("print", "Child exited", "-", 0, w.code, TRUE))
          [] w.st = "Signaled" ->
                set_back_rip(Log(s1, Ev("print", "Child terminated", w.sig, 0, 0, TRUE)))
          [] w.st = "Stopped" ->
                LET s2 == Log(s1, Ev("print", "Child stopped", w.sig, 0, 0, TRUE))
                    line == get_line_from_addr(w.p.rip)
                    s3 == Log(s2, Ev("get_line_from_addr", "", "-", w.p.rip,
                                     IF IsSome(line) THEN Unwrap(line) ELSE 0, IsSome(line)))
                IN  IF ~IsSome(line) THEN Panic(s3, "get_line_from_addr")
                    ELSE set_back_rip(
                             Log(s3, Ev("print", "Stopped at", "-", 0, Unwrap(line), TRUE)))
          [] OTHER ->
                Log(s1, Ev("print", "Error waiting for child", "-", 0, 0, TRUE))

\* Inferior::continue_proc: the states it can return (or panic) in.
continue_proc(s) ==
    LET s1 == set_break_points(s)
    IN  IF s1.panic THEN {s1}
        ELSE UNION {IF s2.panic THEN {s2}
                    ELSE {after_cont(s2, w) : w \in ContAndWait(s2.p)}
                    : s2 \in check_stop_at_b(s1)}

\* Inferior::step_to_next_line without its last line, the write_byte that puts
\* orig_byte back.
step_to_next_line_no_restore(s) ==
    LET s0 == do_getregs(s)
        current_line == get_line_from_addr(s.p.rip)
        next_addr == get_addr_for_line(Unwrap(current_line) + 1)
    IN  IF s.p.gone THEN {s0}
        ELSE IF ~IsSome(current_line) THEN {s0}
        ELSE IF ~IsSome(next_addr) THEN {s0}
        ELSE LET r == do_write_byte(s0, Unwrap(next_addr), trap_byte)
             IN  IF ~r.ok THEN {r.s}
                 ELSE continue_proc(r.s)

\* Inferior::step_to_next_line: the states it can return (or panic) in. The `?`
\* after getregs and after the first write_byte return the error; the Result of
\* the last write_byte is dropped.
step_to_next_line(s) ==
    LET s0 == do_getregs(s)
        current_line == get_line_from_addr(s.p.rip)
        next_addr == get_addr_for_line(Unwrap(current_line) + 1)
    IN  IF s.p.gone THEN {s0}
        ELSE IF ~IsSome(current_line) THEN {s0}
        ELSE IF ~IsSome(next_addr) THEN {s0}
        ELSE LET r == do_write_byte(s0, Unwrap(next_addr), trap_byte)
             IN  IF ~r.ok THEN {r.s}
                 ELSE {IF s3.panic THEN s3
                       ELSE do_write_byte(s3, Unwrap(next_addr), r.byte).s
                       : s3 \in continue_proc(r.s)}

\* Inferior::kill with the Child::kill and Child::wait calls left out.
kill_prints_only(s) ==
    Log(s, Ev("print", "Killing running inferior", "-", s.pid, 0, TRUE))

\* Inferior::kill: Child::kill and Child::wait, errors ignored.
kill(s) ==
    LET s1 == Log(s, Ev("print", "Killing running inferior", "-", s.pid, 0, TRUE))
        s2 == Log(s1, Ev("kill", "", "-", s.pid, 0, ~s.p.gone))
    IN  Log([s2 EXCEPT !.p = NoProcess, !.live = @ \ {s.pid}],
            Ev("reap", "", "-", s.pid, 0, ~s.p.gone))

\* `word as usize` for a word read from the stack. Addresses from 65536 up are all
\* unmapped and carry no debug information, so they are told apart no further.
AsUsize(w) ==
    IF \A i \in 2..7 : w[i] = 0 THEN w[0] + 256 * w[1] ELSE 65536

\* The loop of Inferior::print_backtrace with the two reads exchanged: the return
\* address taken from rbp and the frame pointer from rbp + 8.
RECURSIVE backtrace_loop_swapped(_, _, _, _)
backtrace_loop_swapped(s, rip, rbp, seen) ==
    LET function == get_function_from_addr(rip)
        line == get_line_from_addr(rip)
        s1 == IF IsSome(function)
              THEN Log(s, Ev("print_function", Unwrap(function), "-", rip, 0, TRUE))
              ELSE s
        s2 == IF IsSome(line)
              THEN Log(s1, Ev("print_line", "", "-", rip, Unwrap(line), TRUE))
              ELSE s1
        ok1 == ptrace_read_ok(s.p, rbp)
        ok2 == ptrace_read_ok(s.p, rbp + 8)
        s3 == Log(s2, Ev("read", "", "-", rbp, 0, ok1))
        s4 == Log(s3, Ev("read", "", "-", rbp + 8, 0, ok2))
    IN  IF <<rip, rbp>> \in seen THEN [s |-> s, res |-> "Hang"]
        ELSE IF IsSome(function) /\ Unwrap(function) = "main"
        THEN [s |-> s2, res |-> "Ok"]
        ELSE IF ~ok1 THEN [s |-> s3, res |-> "Err"]
        ELSE IF ~ok2 THEN [s |-> s4, res |-> "Err"]
        ELSE backtrace_loop_swapped(s4, AsUsize(ptrace_read(s.p, rbp)),
                                    AsUsize(ptrace_read(s.p, rbp + 8)),
                                    seen \cup {<<rip, rbp>>})

\* The loop of Inferior::print_backtrace with rbp assigned first: the return
\* address is then read through the frame pointer just loaded.
RECURSIVE backtrace_loop_rbp_first(_, _, _, _)
backtrace_loop_rbp_first(s, rip, rbp, seen) ==
    LET function == get_function_from_addr(rip)
        line == get_line_from_addr(rip)
        s1 == IF IsSome(function)
              THEN Log(s, Ev("print_function", Unwrap(function), "-", rip, 0, TRUE))
              ELSE s
        s2 == IF IsSome(line)
              THEN Log(s1, Ev("print_line", "", "-", rip, Unwrap(line), TRUE))
              ELSE s1
        ok1 == ptrace_read_ok(s.p, rbp)
        new_rbp == AsUsize(ptrace_read(s.p, rbp))
        ok2 == ptrace_read_ok(s.p, new_rbp + 8)
        s3 == Log(s2, Ev("read", "", "-", rbp, 0, ok1))
        s4 == Log(s3, Ev("read", "", "-", new_rbp + 8, 0, ok2))
    IN  IF <<rip, rbp>> \in seen THEN [s |-> s, res |-> "Hang"]
        ELSE IF IsSome(function) /\ Unwrap(function) = "main"
        THEN [s |-> s2, res |-> "Ok"]
        ELSE IF ~ok1 THEN [s |-> s3, res |-> "Err"]
        ELSE IF ~ok2 THEN [s |-> s4, res |-> "Err"]
        ELSE backtrace_loop_rbp_first(s4, AsUsize(ptrace_read(s.p, new_rbp + 8)),
                                      new_rbp, seen \cup {<<rip, rbp>>})

\* The loop of Inferior::print_backtrace at (rip, rbp). The loop reads only the
\* process's memory, which it does not change, so coming back to a (rip, rbp) it
\* has been at means it never ends: "Hang".
RECURSIVE backtrace_loop(_, _, _, _)
backtrace_loop(s, rip, rbp, seen) ==
    LET function == get_function_from_addr(rip)
        line == get_line_from_addr(rip)
        s1 == IF IsSome(function)
              THEN Log(s, Ev("print_function", Unwrap(function), "-", rip, 0, TRUE))
              ELSE s
        s2 == IF IsSome(line)
              THEN Log(s1, Ev("print_line", "", "-", rip, Unwrap(line), TRUE))
              ELSE s1
        ok1 == ptrace_read_ok(s.p, rbp + 8)
        ok2 == ptrace_read_ok(s.p, rbp)
        s3 == Log(s2, Ev("read", "", "-", rbp + 8, 0, ok1))
        s4 == Log(s3, Ev("read", "", "-", rbp, 0, ok2))
    IN  IF <<rip, rbp>> \in seen THEN [s |-> s, res |-> "Hang"]
        ELSE IF IsSome(function) /\ Unwrap(function) = "main"
        THEN [s |-> s2, res |-> "Ok"]
        ELSE IF ~ok1 THEN [s |-> s3, res |-> "Err"]
        ELSE IF ~ok2 THEN [s |-> s4, res |-> "Err"]
        ELSE backtrace_loop(s4, AsUsize(ptrace_read(s.p, rbp + 8)),
                            AsUsize(ptrace_read(s.p, rbp)),
                            seen \cup {<<rip, rbp>>})

\* Inferior::print_backtrace.
print_backtrace(s) ==
    LET s0 == do_getregs(s)
    IN  IF s.p.gone THEN [s |-> Panic(s0, "print_backtrace"), res |-> "Panic"]
        ELSE backtrace_loop(s0, s.p.rip, s.p.rbp, {})

(***************************************************************************)
(* Break's parsing of its argument, a string as the sequence of its        *)
(* characters.                                                             *)
(***************************************************************************)
\* char::to_digit(radix), for radix 10 and 16.
to_digit(c, radix) ==
    LET v == CASE c = "0" -> 0 [] c = "1" -> 1 [] c = "2" -> 2 [] c = "3" -> 3
               [] c = "4" -> 4 [] c = "5" -> 5 [] c = "6" -> 6 [] c = "7" -> 7
               [] c = "8" -> 8 [] c = "9" -> 9
               [] c \in {"a", "A"} -> 10 [] c \in {"b", "B"} -> 11
               [] c \in {"c", "C"} -> 12 [] c \in {"d", "D"} -> 13
               [] c \in {"e", "E"} -> 14 [] c \in {"f", "F"} -> 15
               [] OTHER -> 99
    IN  IF v < radix THEN Some(v) ELSE None

RECURSIVE digits_value(_, _, _)
digits_value(digits, radix, acc) ==
    IF digits = <<>> THEN Some(acc)
    ELSE LET d == to_digit(Head(digits), radix)
         IN  IF IsSome(d) THEN digits_value(Tail(digits), radix, acc * radix + Unwrap(d))
             ELSE None

\* usize::from_str_radix(src, radix).ok(): an optional '+', then one digit or
\* more. (The strings of BreakSpecs are too short to overflow a usize.)
from_str_radix(src, radix) ==
    LET digits == IF src # <<>> /\ Head(src) = "+" THEN Tail(src) ELSE src
    IN  IF digits = <<>> THEN None ELSE digits_value(digits, radix, 0)

\* str::to_lowercase, on the letters BreakSpecs uses in upper case.
to_lowercase(str) ==
    [i \in 1..Len(str) |-> CASE str[i] = "X" -> "x" [] str[i] = "A" -> "a"
                             [] str[i] = "F" -> "f" [] OTHER -> str[i]]

starts_with(str, prefix) ==
    Len(str) >= Len(prefix) /\ SubSeq(str, 1, Len(prefix)) = prefix

\* Debugger::parse_address.
parse_address(addr) ==
    LET addr_without_0x == IF starts_with(to_lowercase(addr), <<"0", "x">>)
                           THEN SubSeq(addr, 3, Len(addr))
                           ELSE addr
    IN  from_str_radix(addr_without_0x, 16)

\* A call of one of the three resolvers, with what it returned.
ResolverCall(name, address) ==
    Ev(name, "", "-", 0, IF IsSome(address) THEN Unwrap(address) ELSE 0, IsSome(address))

\* The if/else chain of the Break arm with a '*' target that is no address tried
\* as a function name as well.
break_resolution_fallthrough(bp_target) ==
    IF starts_with(bp_target, <<"*">>)
    THEN LET address == parse_address(SubSeq(bp_target, 2, Len(bp_target)))
             function == get_addr_for_function(bp_target)
         IN  IF IsSome(address)
             THEN [address |-> address, calls |-> <<ResolverCall("parse_address", address)>>]
             ELSE [address |-> function,
                   calls |-> <<ResolverCall("parse_address", address),
                               ResolverCall("get_addr_for_function", function)>>]
    ELSE IF IsSome(from_str_radix(bp_target, 10))
    THEN LET address == get_addr_for_line(Unwrap(from_str_radix(bp_target, 10)))
         IN  [address |-> address, calls |-> <<ResolverCall("get_addr_for_line", address)>>]
    ELSE LET address == get_addr_for_function(bp_target)
         IN  [address |-> address,
              calls |-> <<ResolverCall("get_addr_for_function", address)>>]

\* The if/else chain of the Break arm: the address it resolves bp_target to and
\* the resolver calls it makes. (bp_target.parse::<usize>() is from_str_radix
\* with radix 10.)
break_resolution(bp_target) ==
    IF starts_with(bp_target, <<"*">>)
    THEN LET address == parse_address(SubSeq(bp_target, 2, Len(bp_target)))
         IN  [address |-> address, calls |-> <<ResolverCall("parse_address", address)>>]
    ELSE IF IsSome(from_str_radix(bp_target, 10))
    THEN LET address == get_addr_for_line(Unwrap(from_str_radix(bp_target, 10)))
         IN  [address |-> address, calls |-> <<ResolverCall("get_addr_for_line", address)>>]
    ELSE LET address == get_addr_for_function(bp_target)
         IN  [address |-> address,
              calls |-> <<ResolverCall("get_addr_for_function", address)>>]

\* The address the Break arm resolves bp_target to.
resolve_break(bp_target) == break_resolution(bp_target).address

\* The arguments Break is given: main, foo, *0x18 (foo), *0X11 (main), *18 (foo),
\* 8 (foo's first line), 7 (a line with no instruction), bar (no such function),
\* *zz (no address).
BreakSpecs ==
    { <<"m", "a", "i", "n">>, <<"f", "o", "o">>, <<"*", "0", "x", "1", "8">>,
      <<"*", "0", "X", "1", "1">>, <<"*", "1", "8">>, <<"8">>, <<"7">>,
      <<"b", "a", "r">>, <<"*", "z", "z">> }

(***************************************************************************)
(* The command loop, Debugger::run. Each arm gives the set of states the   *)
(* debugger can be in when the arm is through: back at the prompt, or      *)
(* panicked, hung or quit, which end the loop.                             *)
(***************************************************************************)
MaxRuns == 2
MaxBreaks == 2

\* What Inferior::new's spawn and first wait can come to: the spawn fails, or
\* the child is stopped by the exec SIGTRAP, stopped by another signal, has
\* exited, was killed, or the wait itself fails.
SpawnOutcomes == {"spawn_err", "SIGTRAP", "SIGSTOP", "Exited", "Signaled", "Err"}

\* The state an arm starts from: the process of self.inferior, and a log that
\* names the command.
Start(command) ==
    [pid |-> IF IsSome(inferior) THEN Unwrap(inferior).pid ELSE 0,
     p |-> child,
     bps |-> IF IsSome(inferior) THEN Unwrap(inferior).break_points ELSE <<>>,
     live |-> live,
     ops |-> <<Ev("command", command, "-", 0, 0, TRUE)>>,
     panic |-> FALSE]

\* bp_map in Inferior::new with the loop stopping one entry short of the Vec's end.
bp_map_drops_last(bps) ==
    [a \in {bps[i].addr : i \in 1..(Len(bps) - 1)} |->
        bps[CHOOSE i \in 1..(Len(bps) - 1) : bps[i].addr = a].orig_byte]

\* bp_map in Inferior::new: a later entry of the Vec replaces an earlier one of
\* the same address.
bp_map(bps) ==
    [a \in {bps[i].addr : i \in 1..Len(bps)} |->
        LET last == CHOOSE i \in 1..Len(bps) :
                        bps[i].addr = a /\ \A j \in 1..Len(bps) : bps[j].addr = a => j <= i
        IN  bps[last].orig_byte]

\* Inferior::new with the match arm `Ok(Status::Stopped(_, _)) => Some(infer)`: a
\* first stop by any signal taken for success.
Inferior_new_any_stop(bps, o, pid) ==
    CASE o = "spawn_err" -> [inferior |-> None, p |-> NoProcess, alive |-> FALSE]
      [] o \in {"SIGTRAP", "SIGSTOP"} ->
            [inferior |-> Some([pid |-> pid, break_points |-> bp_map(bps)]),
             p |-> FreshProcess, alive |-> TRUE]
      [] o = "Err" -> [inferior |-> None, p |-> NoProcess, alive |-> TRUE]
      [] OTHER -> [inferior |-> None, p |-> NoProcess, alive |-> FALSE]

\* Inferior::new with outcome o, as pid: the Option returned, the new process and
\* whether it is alive afterwards.
Inferior_new(bps, o, pid) ==
    CASE o = "spawn_err" -> [inferior |-> None, p |-> NoProcess, alive |-> FALSE]
      [] o = "SIGTRAP" ->
            [inferior |-> Some([pid |-> pid, break_points |-> bp_map(bps)]),
             p |-> FreshProcess, alive |-> TRUE]
      [] o \in {"SIGSTOP", "Err"} -> [inferior |-> None, p |-> NoProcess, alive |-> TRUE]
      [] OTHER -> [inferior |-> None, p |-> NoProcess, alive |-> FALSE]

\* The debugger when an arm is through in s, self.inferior being inf.
AfterCommand(s, inf, np) ==
    [cmd |-> IF s.panic THEN "panicked" ELSE "prompt",
     inferior |-> IF IsSome(inf)
                  THEN Some([pid |-> Unwrap(inf).pid, break_points |-> s.bps])
                  ELSE None,
     child |-> s.p,
     live |-> s.live,
     nextPid |-> np,
     held |-> IF IsSome(inf) THEN held \cup {Unwrap(inf).pid} ELSE held,
     ops |-> s.ops]

\* DebuggerCommand::Run(args).
RunArm ==
    LET s1 == IF IsSome(inferior) THEN kill(Start("Run")) ELSE Start("Run")
    IN  UNION {
          LET new == Inferior_new(break_points, o, nextPid)
              s2 == Log([s1 EXCEPT !.live = IF new.alive THEN @ \cup {nextPid} ELSE @],
                        Ev("spawn", o, "-", nextPid, 0, o # "spawn_err"))
              np == IF o = "spawn_err" THEN nextPid ELSE nextPid + 1
          IN  IF IsSome(new.inferior)
              THEN UNION {
                     {AfterCommand(s3, new.inferior, np) :
                        s3 \in continue_proc([s2 EXCEPT
                                  !.pid = nextPid,
                                  !.p = p,
                                  !.bps = Unwrap(new.inferior).break_points])}
                     : p \in {[new.p EXCEPT !.mem[80] = g] : g \in RuntimeRbp}}
              ELSE {AfterCommand(
                      Log(s2, Ev("print", "Error starting subprocess", "-", 0, 0, TRUE)),
                      inferior, np)}
          : o \in SpawnOutcomes}

\* The Continue arm as `self.inferior.as_mut().unwrap().continue_proc(..)`, with
\* no test for None.
ContinueArm_unchecked ==
    IF IsSome(inferior)
    THEN {AfterCommand(s, inferior, nextPid) : s \in continue_proc(Start("Continue"))}
    ELSE {AfterCommand(Panic(Start("Continue"), "Continue"), inferior, nextPid)}

\* DebuggerCommand::Continue.
ContinueArm ==
    IF IsSome(inferior)
    THEN {AfterCommand(s, inferior, nextPid) : s \in continue_proc(Start("Continue"))}
    ELSE {AfterCommand(
            Log(Start("Continue"),
                Ev("print", "Error: no inferior process running", "-", 0, 0, TRUE)),
            inferior, nextPid)}

\* The Quit arm as a bare `return`, the inferior left alone.
QuitArm_no_kill ==
    {[AfterCommand(Start("Quit"), inferior, nextPid) EXCEPT !.cmd = "quit"]}

\* DebuggerCommand::Quit.
QuitArm ==
    LET s1 == IF IsSome(inferior) THEN kill(Start("Quit")) ELSE Start("Quit")
    IN  {[AfterCommand(s1, inferior, nextPid) EXCEPT !.cmd = "quit"]}

\* DebuggerCommand::Backtrace: the Result of print_backtrace is dropped.
BacktraceArm ==
    IF IsSome(inferior)
    THEN LET r == print_backtrace(Start("Backtrace"))
         IN  {[AfterCommand(r.s, inferior, nextPid) EXCEPT
                  !.cmd = IF r.res = "Hang" THEN "hung" ELSE @]}
    ELSE {AfterCommand(Start("Backtrace"), inferior, nextPid)}

\* DebuggerCommand::Break(bp_target): the table and the log afterwards, and
\* whether address.unwrap() panicked.
BreakArm(bp_target) ==
    LET address == resolve_break(bp_target)
        idx == Len(break_points)
    IN  IF IsSome(address)
        THEN [break_points |-> Append(break_points,
                                      [addr |-> Unwrap(address), orig_byte |-> trap_byte]),
              ops |-> <<Ev("command", "Break", "-", 0, 0, TRUE),
                        Ev("print", "Set breakpoint", "-", Unwrap(address), idx, TRUE)>>,
              panic |-> FALSE]
        ELSE [break_points |-> break_points,
              ops |-> <<Ev("command", "Break", "-", 0, 0, TRUE),
                        Ev("panic", "Break", "-", 0, 0, FALSE)>>,
              panic |-> TRUE]

\* The Vec Break builds for the addresses of S, in increasing order.
RECURSIVE SortedBps(_)
SortedBps(S) ==
    IF S = {} THEN <<>>
    ELSE LET m == CHOOSE x \in S : \A y \in S : x <= y
         IN  <<[addr |-> m, orig_byte |-> trap_byte]>> \o SortedBps(S \ {m})

Apply(r) ==
    /\ cmd' = r.cmd
    /\ inferior' = r.inferior
    /\ child' = r.child
    /\ live' = r.live
    /\ nextPid' = r.nextPid
    /\ held' = r.held
    /\ ops' = r.ops

CmdRun ==
    /\ cmd = "prompt"
    /\ nextPid <= MaxRuns
    /\ \E r \in RunArm : Apply(r)
    /\ UNCHANGED <<break_points, wb_vars, rl_vars, st_vars, bk_vars, up_vars, pm_vars>>

CmdContinue ==
    /\ cmd = "prompt"
    /\ \E r \in ContinueArm : Apply(r)
    /\ UNCHANGED <<break_points, wb_vars, rl_vars, st_vars, bk_vars, up_vars, pm_vars>>

CmdQuit ==
    /\ cmd = "prompt"
    /\ \E r \in QuitArm : Apply(r)
    /\ UNCHANGED <<break_points, wb_vars, rl_vars, st_vars, bk_vars, up_vars, pm_vars>>

CmdBacktrace ==
    /\ cmd = "prompt"
    /\ \E r \in BacktraceArm : Apply(r)
    /\ UNCHANGED <<break_points, wb_vars, rl_vars, st_vars, bk_vars, up_vars, pm_vars>>

CmdBreak ==
    /\ cmd = "prompt"
    /\ Len(break_points) < MaxBreaks
    /\ \E bp_target \in BreakSpecs :
          LET r == BreakArm(bp_target)
          IN  /\ break_points' = r.break_points
              /\ ops' = r.ops
              /\ cmd' = IF r.panic THEN "panicked" ELSE "prompt"
    /\ UNCHANGED <<inferior, child, live, nextPid, held, wb_vars, rl_vars, st_vars, bk_vars, up_vars, pm_vars>>

\* DebuggerCommand::Print: an empty arm.
CmdPrint ==
    /\ cmd = "prompt"
    /\ ops' = <<Ev("command", "Print", "-", 0, 0, TRUE)>>
    /\ UNCHANGED <<cmd, break_points, inferior, child, live, nextPid, held, wb_vars, rl_vars, st_vars, bk_vars, up_vars, pm_vars>>

(***************************************************************************)
(* The state of the specifications that are not the one being run.         *)
(***************************************************************************)
StIdle == st_pre = NoProcess

BkIdle == bk_target = <<>> /\ bk_before = <<>>

UpIdle ==
    /\ up_live = <<>>
    /\ up_task = <<>>
    /\ up_checks = 0
    /\ up_log = <<>>

PmIdle ==
    /\ pm_input = <<>>
    /\ pm_num_threads = 0
    /\ pm_pc = "off"
    /\ pm_input_vec = <<>>
    /\ pm_idx = 0
    /\ pm_s1 = <<>>
    /\ pm_worker = <<>>
    /\ pm_rx = <<>>
    /\ pm_output_vec = <<>>

(***************************************************************************)
(* balancebeam's rate limiter (proj-2/balancebeam): the handle_connection  *)
(* tasks of Tasks, each serving one client connection, reading requests    *)
(* and passing them through rate_limiting_check. Time is Instant::now() in *)
(* seconds, advancing in steps of TickSecs.                                *)
(***************************************************************************)
\* Duration::from_secs(60).
window == 60

TickSecs == 20
MaxTime == 80
MaxRequests == 4
MaxLimit == 2

\* The connections and the peer address of each: two from one client, one from
\* another.
Tasks == {1, 2, 3}

Ips == {"a", "b"}

client_ip(t) == IF t = 3 THEN "b" ELSE "a"

\* while matches!(deque.front(), Some(ts) if *ts < cutoff) { deque.pop_front(); }
RECURSIVE pop_expired(_, _)
pop_expired(deque, cutoff) ==
    IF deque # <<>> /\ Head(deque) < cutoff
    THEN pop_expired(Tail(deque), cutoff)
    ELSE deque

\* A request decided: the client, the `now` of its check (the time it is forwarded
\* at when there is no check), and whether it went on to be forwarded upstream
\* (otherwise it was answered 429).
Decision(t, now, ok) == [ip |-> client_ip(t), now |-> now, ok |-> ok]

RLIdle ==
    /\ rl_max = 0
    /\ rl_window = [ip \in Ips |-> <<>>]
    /\ rl_lock = 0
    /\ rl_task = [t \in Tasks |-> [pc |-> "off", now |-> 0]]
    /\ rl_clock = 0
    /\ rl_log = <<>>

\* Time passes.
RLTick ==
    /\ rl_clock + TickSecs <= MaxTime
    /\ rl_clock' = rl_clock + TickSecs
    /\ UNCHANGED <<rl_max, rl_window, rl_lock, rl_task, rl_log, dbg_vars, wb_vars, st_vars, bk_vars, up_vars, pm_vars>>

\* handle_connection with max_requests_per_minute = 0: the request read is
\* forwarded with no check.
RLForwardUnchecked(t) ==
    /\ rl_task[t].pc = "read"
    /\ Len(rl_log) < MaxRequests
    /\ ~(rl_max > 0)
    /\ rl_log' = Append(rl_log, Decision(t, rl_clock, TRUE))
    /\ UNCHANGED <<rl_max, rl_window, rl_lock, rl_task, rl_clock, dbg_vars, wb_vars, st_vars, bk_vars, up_vars, pm_vars>>

\* handle_connection has read a request and enters rate_limiting_check, which
\* takes `now` and then waits for the Mutex.
RLBeginCheck(t) ==
    /\ rl_task[t].pc = "read"
    /\ Len(rl_log) + Cardinality({u \in Tasks : rl_task[u].pc # "read"}) < MaxRequests
    /\ rl_max > 0
    /\ rl_task' = [rl_task EXCEPT ![t] = [pc |-> "lock", now |-> rl_clock]]
    /\ UNCHANGED <<rl_max, rl_window, rl_lock, rl_clock, rl_log, dbg_vars, wb_vars, st_vars, bk_vars, up_vars, pm_vars>>

\* rate_limiting_check from the lock on: expired timestamps are popped from the
\* front; with the deque full the 429 is written next, the lock still held;
\* otherwise `now` is pushed, the lock dropped and the request forwarded.
RLCheck(t) ==
    /\ rl_task[t].pc = "lock"
    /\ rl_lock = 0
    /\ LET ip == client_ip(t)
           now == rl_task[t].now
           cutoff == now - window
           deque == pop_expired(rl_window[ip], cutoff)
       IN  IF Len(deque) >= rl_max
           THEN /\ rl_window' = [rl_window EXCEPT ![ip] = deque]
                /\ rl_lock' = t
                /\ rl_task' = [rl_task EXCEPT ![t].pc = "write429"]
                /\ UNCHANGED rl_log
           ELSE /\ rl_window' = [rl_window EXCEPT ![ip] = Append(deque, now)]
                /\ rl_lock' = 0
                /\ rl_task' = [rl_task EXCEPT ![t] = [pc |-> "read", now |-> 0]]
                /\ rl_log' = Append(rl_log, Decision(t, now, TRUE))
    /\ UNCHANGED <<rl_max, rl_clock, dbg_vars, wb_vars, st_vars, bk_vars, up_vars, pm_vars>>

\* The 429 has been written (or the write failed): rate_limiting_check returns
\* Err, the lock is dropped and handle_connection goes on to the next request.
RLWrite429(t) ==
    /\ rl_task[t].pc = "write429"
    /\ rl_lock = t
    /\ rl_lock' = 0
    /\ rl_log' = Append(rl_log, Decision(t, rl_task[t].now, FALSE))
    /\ rl_task' = [rl_task EXCEPT ![t] = [pc |-> "read", now |-> 0]]
    /\ UNCHANGED <<rl_max, rl_window, rl_clock, dbg_vars, wb_vars, st_vars, bk_vars, up_vars, pm_vars>>

(***************************************************************************)
(* write_byte on its own: a process whose memory is the two words at 16    *)
(* and 24, patched at wb_addr with the trap byte and then restored with    *)
(* the byte the patch returned.                                            *)
(***************************************************************************)
WBAddrs == 16..31

\* What the bytes around the patched one hold: all 0x00, all 0xFF, all 0xCC, or
\* a different value at every address.
WBPattern(k, a) ==
    CASE k = 0 -> 0 [] k = 1 -> 255 [] k = 2 -> trap_byte [] OTHER -> (a * 37 + 11) % 256

WBIdle ==
    /\ wb_proc = NoProcess
    /\ wb_addr = 16
    /\ wb_orig = TargetImage
    /\ wb_saved = 0
    /\ wb_pc = "off"

DbgIdle ==
    /\ cmd = "off"
    /\ break_points = <<>>
    /\ inferior = None
    /\ child = NoProcess
    /\ live = {}
    /\ nextPid = 1
    /\ held = {}
    /\ ops = <<>>

WBInit ==
    /\ DbgIdle
    /\ RLIdle
    /\ StIdle /\ BkIdle /\ UpIdle /\ PmIdle
    /\ wb_pc = "init"
    /\ wb_saved = 0
    /\ wb_addr \in WBAddrs
    /\ \E b \in Byte, k \in 0..3 :
          wb_orig = [a \in WBAddrs |-> IF a = wb_addr THEN b ELSE WBPattern(k, a)]
    /\ wb_proc = [gone |-> FALSE, mem |-> wb_orig, rip |-> 16, rbp |-> 0]

\* write_byte(addr, 0xcc), keeping the byte it returns.
WBPatch ==
    /\ wb_pc = "init"
    /\ LET r == write_byte(wb_proc, wb_addr, trap_byte)
       IN  /\ r.ok
           /\ wb_proc' = r.p
           /\ wb_saved' = r.byte
    /\ wb_pc' = "patched"
    /\ UNCHANGED <<wb_addr, wb_orig, dbg_vars, rl_vars, st_vars, bk_vars, up_vars, pm_vars>>

\* write_byte(addr, b) with the byte kept.
WBRestore ==
    /\ wb_pc = "patched"
    /\ LET r == write_byte(wb_proc, wb_addr, wb_saved)
       IN  /\ r.ok
           /\ wb_proc' = r.p
    /\ wb_pc' = "restored"
    /\ UNCHANGED <<wb_addr, wb_orig, wb_saved, dbg_vars, rl_vars, st_vars, bk_vars, up_vars, pm_vars>>

WBNext == WBPatch \/ WBRestore

SpecWB == WBInit /\ [][WBNext]_vars

\* balancebeam started with --max-requests-per-minute rl_max, its connections
\* accepted.
RLInit ==
    /\ DbgIdle
    /\ WBIdle
    /\ StIdle /\ BkIdle /\ UpIdle /\ PmIdle
    /\ rl_max \in 0..MaxLimit
    /\ rl_window = [ip \in Ips |-> <<>>]
    /\ rl_lock = 0
    /\ rl_task = [t \in Tasks |-> [pc |-> "read", now |-> 0]]
    /\ rl_clock = 0
    /\ rl_log = <<>>

RLNext ==
    \/ RLTick
    \/ \E t \in Tasks : RLForwardUnchecked(t)
    \/ \E t \in Tasks : RLBeginCheck(t)
    \/ \E t \in Tasks : RLCheck(t)
    \/ \E t \in Tasks : RLWrite429(t)

SpecRL == RLInit /\ [][RLNext]_vars

(***************************************************************************)
(* The debugger: Debugger::new, then the command loop.                     *)
(***************************************************************************)
Init ==
    /\ cmd = "prompt"
    /\ break_points = <<>>
    /\ inferior = None
    /\ child = NoProcess
    /\ live = {}
    /\ nextPid = 1
    /\ held = {}
    /\ ops = <<>>
    /\ WBIdle
    /\ RLIdle
    /\ StIdle /\ BkIdle /\ UpIdle /\ PmIdle

Next ==
    \/ CmdRun
    \/ CmdContinue
    \/ CmdQuit
    \/ CmdBacktrace
    \/ CmdBreak
    \/ CmdPrint

Spec == Init /\ [][Next]_vars

(***************************************************************************)
(* Inferior::step_to_next_line, which the command loop has no arm for: a   *)
(* driver that starts the inferior with a breakpoint table, resumes it and *)
(* steps it by source lines. st_pre is the process as it was when the last *)
(* step_to_next_line was called.                                           *)
(***************************************************************************)
\* The breakpoint tables the driver starts from: Break's entries for some of
\* main's line 4, foo's entry and foo's line 9.
StepTables ==
    {SortedBps(S) : S \in SUBSET {21, 24, 28}}

StepInit ==
    /\ cmd = "step"
    /\ break_points \in StepTables
    /\ inferior = None
    /\ child = NoProcess
    /\ live = {}
    /\ nextPid = 1
    /\ held = {}
    /\ ops = <<>>
    /\ WBIdle /\ RLIdle /\ StIdle /\ BkIdle /\ UpIdle /\ PmIdle

\* The driver goes on after r unless the debugger panicked.
ApplyStep(r) ==
    Apply([r EXCEPT !.cmd = IF r.cmd = "prompt" THEN "step" ELSE r.cmd])

\* Inferior::new and the first continue_proc, as the Run arm does them.
StepRun ==
    /\ cmd = "step"
    /\ inferior = None
    /\ nextPid <= MaxRuns
    /\ \E r \in RunArm : ApplyStep(r)
    /\ UNCHANGED <<break_points, wb_vars, rl_vars, st_vars, bk_vars, up_vars, pm_vars>>

\* continue_proc, as the Continue arm calls it.
StepContinue ==
    /\ cmd = "step"
    /\ IsSome(inferior)
    /\ \E r \in ContinueArm : ApplyStep(r)
    /\ UNCHANGED <<break_points, wb_vars, rl_vars, st_vars, bk_vars, up_vars, pm_vars>>

\* inferior.step_to_next_line(&debug_data).
StepNext ==
    /\ cmd = "step"
    /\ IsSome(inferior)
    /\ st_pre' = child
    /\ \E s \in step_to_next_line(Start("Next")) :
          ApplyStep(AfterCommand(s, inferior, nextPid))
    /\ UNCHANGED <<break_points, wb_vars, rl_vars, bk_vars, up_vars, pm_vars>>

NextStep ==
    \/ StepRun
    \/ StepContinue
    \/ StepNext

SpecStep == StepInit /\ [][NextStep]_vars

(***************************************************************************)
(* The Break arm on its own, for targets well beyond those of BreakSpecs:  *)
(* one Break(bk_target) on a table bk_before, the log taking the resolver  *)
(* calls as well.                                                          *)
(***************************************************************************)
MaxTargetLen == 3

BreakChars == {"*", "+", "0", "1", "8", "x", "f"}

RECURSIVE Strings(_)
Strings(n) ==
    IF n = 0 THEN {<<>>}
    ELSE LET shorter == Strings(n - 1)
         IN  shorter \cup {Append(str, c) : str \in {t \in shorter : Len(t) = n - 1},
                                            c \in BreakChars}

\* Break's argument is a token of the command line: it is not empty.
BreakTargets == BreakSpecs \cup (Strings(MaxTargetLen) \ {<<>>})

BreakInit ==
    /\ cmd = "break"
    /\ break_points \in StepTables
    /\ bk_before = break_points
    /\ bk_target \in BreakTargets
    /\ inferior = None
    /\ child = NoProcess
    /\ live = {}
    /\ nextPid = 1
    /\ held = {}
    /\ ops = <<>>
    /\ WBIdle /\ RLIdle /\ StIdle /\ UpIdle /\ PmIdle

\* DebuggerCommand::Break(bk_target).
BreakOne ==
    /\ cmd = "break"
    /\ LET r == BreakArm(bk_target)
       IN  /\ break_points' = r.break_points
           /\ ops' = <<Head(r.ops)>> \o break_resolution(bk_target).calls \o Tail(r.ops)
           /\ cmd' = IF r.panic THEN "panicked" ELSE "broke"
    /\ UNCHANGED <<inferior, child, live, nextPid, held, wb_vars, rl_vars, st_vars, bk_vars, up_vars, pm_vars>>

NextBreak == BreakOne

SpecBreak == BreakInit /\ [][NextBreak]_vars

(***************************************************************************)
(* balancebeam's failover (proj-2/balancebeam): the connect_to_upstream    *)
(* calls of UpTasks, each from its own handle_connection task, and the     *)
(* active_health_check task, all on the one RwLock<Vec<String>>. A guard   *)
(* is held across no .await, so each locked section is one step.           *)
(***************************************************************************)
\* options.upstream.
upstream_addresses == <<"u1", "u2", "u3">>

UpTasks == {1, 2}

MaxChecks == 1

\* Vec::remove(index), for an index within bounds.
remove(vec, index) ==
    [i \in 1..(Len(vec) - 1) |-> IF i <= index THEN vec[i] ELSE vec[i + 1]]

\* The upstreams of targets that answer the probe with 200, in targets' order.
RECURSIVE healthy_of(_, _)
healthy_of(targets, up) ==
    IF targets = <<>> THEN <<>>
    ELSE (IF Head(targets) \in up THEN <<Head(targets)>> ELSE <<>>)
         \o healthy_of(Tail(targets), up)

\* A removal by connect_to_upstream: the task, the address it picked and failed to
\* connect to, the index it removed at, and what that removed: the address taken
\* out of the Vec, or "panic" when Vec::remove panicked, the index out of bounds.
Removal(t, ip, idx, removed) == [task |-> t, ip |-> ip, idx |-> idx, removed |-> removed]

UpInit ==
    /\ DbgIdle /\ WBIdle /\ RLIdle /\ StIdle /\ BkIdle /\ PmIdle
    /\ up_live = upstream_addresses
    /\ up_task = [t \in UpTasks |-> [pc |-> "loop", idx |-> 0, ip |-> ""]]
    /\ up_checks = 0
    /\ up_log = <<>>

\* The top of the loop with the list empty: break, and Err is returned.
UpNoUpstream(t) ==
    /\ up_task[t].pc = "loop"
    /\ Len(up_live) = 0
    /\ up_task' = [up_task EXCEPT ![t].pc = "failed"]
    /\ UNCHANGED <<up_live, up_checks, up_log, dbg_vars, wb_vars, rl_vars, st_vars, bk_vars, pm_vars>>

\* The top of the loop under the read lock: an index is drawn and the address
\* there cloned; the lock is dropped. (Vec indices count from 0.)
UpPick(t) ==
    /\ up_task[t].pc = "loop"
    /\ Len(up_live) # 0
    /\ \E upstream_idx \in 0..(Len(up_live) - 1) :
          up_task' = [up_task EXCEPT ![t] = [pc |-> "connect", idx |-> upstream_idx,
                                             ip |-> up_live[upstream_idx + 1]]]
    /\ UNCHANGED <<up_live, up_checks, up_log, dbg_vars, wb_vars, rl_vars, st_vars, bk_vars, pm_vars>>

\* TcpStream::connect succeeded: the stream is returned.
UpConnected(t) ==
    /\ up_task[t].pc = "connect"
    /\ up_task' = [up_task EXCEPT ![t].pc = "connected"]
    /\ UNCHANGED <<up_live, up_checks, up_log, dbg_vars, wb_vars, rl_vars, st_vars, bk_vars, pm_vars>>

\* TcpStream::connect failed: under the write lock, upstreams.remove(upstream_idx),
\* then the loop again; out of bounds, remove panics and the task ends.
UpRemove(t) ==
    /\ up_task[t].pc = "connect"
    /\ LET upstream_idx == up_task[t].idx
       IN  IF upstream_idx < Len(up_live)
           THEN /\ up_live' = remove(up_live, upstream_idx)
                /\ up_log' = <<Removal(t, up_task[t].ip, upstream_idx,
                                     up_live[upstream_idx + 1])>>
                /\ up_task' = [up_task EXCEPT ![t] = [pc |-> "loop", idx |-> 0, ip |-> ""]]
           ELSE /\ up_live' = up_live
                /\ up_log' = <<Removal(t, up_task[t].ip, upstream_idx, "panic")>>
                /\ up_task' = [up_task EXCEPT ![t].pc = "panicked"]
    /\ UNCHANGED <<up_checks, dbg_vars, wb_vars, rl_vars, st_vars, bk_vars, pm_vars>>

\* One round of active_health_check: the upstreams of `up` answered 200; under the
\* write lock the list is replaced by them.
UpHealthCheck ==
    /\ up_checks < MaxChecks
    /\ up_checks' = up_checks + 1
    /\ \E up \in SUBSET {upstream_addresses[i] : i \in 1..Len(upstream_addresses)} :
          up_live' = healthy_of(upstream_addresses, up)
    /\ UNCHANGED <<up_task, up_log, dbg_vars, wb_vars, rl_vars, st_vars, bk_vars, pm_vars>>

UpNext ==
    \/ \E t \in UpTasks : UpNoUpstream(t)
    \/ \E t \in UpTasks : UpPick(t)
    \/ \E t \in UpTasks : UpConnected(t)
    \/ \E t \in UpTasks : UpRemove(t)
    \/ UpHealthCheck

SpecUp == UpInit /\ [][UpNext]_vars

(***************************************************************************)
(* parallel_map (week6/parallel_map): the calling thread and the threads   *)
(* it spawns. s1/r1 is the crossbeam channel of (val, idx), tx/rx the mpsc *)
(* channel of (f(val), idx); both are unbounded queues.                    *)
(***************************************************************************)
MaxLen == 3
MaxThreads == 2

\* The elements of the input vectors.
PmValues == {2, 3}

\* The function mapped, and U::default().
f(val) == val * val + 1

Default == 0

PmInputs == UNION {[1..n -> PmValues] : n \in 0..MaxLen}

\* One pass of the `while let Some(val) = input_vec.pop()` loop counting idx
\* down after the send: the message carries the index one too high.
send_next_late_decrement(input_vec, idx) ==
    [input_vec |-> SubSeq(input_vec, 1, Len(input_vec) - 1),
     idx |-> idx - 1,
     msg |-> <<input_vec[Len(input_vec)], idx>>]

\* One pass of the `while let Some(val) = input_vec.pop()` loop: the last element
\* is popped, idx counted down and (val, idx) sent.
send_next(input_vec, idx) ==
    [input_vec |-> SubSeq(input_vec, 1, Len(input_vec) - 1),
     idx |-> idx - 1,
     msg |-> <<input_vec[Len(input_vec)], idx - 1>>]

PmInit ==
    /\ DbgIdle /\ WBIdle /\ RLIdle /\ StIdle /\ BkIdle /\ UpIdle
    /\ pm_input \in PmInputs
    /\ pm_num_threads \in 1..MaxThreads
    /\ pm_pc = "fill"
    /\ pm_input_vec = pm_input
    /\ pm_idx = Len(pm_input)
    /\ pm_s1 = <<>>
    /\ pm_worker = <<>>
    /\ pm_rx = <<>>
    /\ pm_output_vec = [i \in 1..Len(pm_input) |-> Default]

\* A pass of the send loop.
PmSend ==
    /\ pm_pc = "fill"
    /\ pm_input_vec # <<>>
    /\ LET r == send_next(pm_input_vec, pm_idx)
       IN  /\ pm_input_vec' = r.input_vec
           /\ pm_idx' = r.idx
           /\ pm_s1' = Append(pm_s1, r.msg)
    /\ UNCHANGED <<pm_input, pm_num_threads, pm_pc, pm_worker, pm_rx, pm_output_vec>>
    /\ UNCHANGED <<dbg_vars, wb_vars, rl_vars, st_vars, bk_vars, up_vars>>

\* input_vec.pop() is None: drop(s1).
PmDropS1 ==
    /\ pm_pc = "fill"
    /\ pm_input_vec = <<>>
    /\ pm_pc' = "spawn"
    /\ UNCHANGED <<pm_input, pm_num_threads, pm_input_vec, pm_idx, pm_s1, pm_worker,
                   pm_rx, pm_output_vec>>
    /\ UNCHANGED <<dbg_vars, wb_vars, rl_vars, st_vars, bk_vars, up_vars>>

\* thread::spawn of the next worker, with its clones of r1 and tx.
PmSpawn ==
    /\ pm_pc = "spawn"
    /\ Len(pm_worker) < pm_num_threads
    /\ pm_worker' = Append(pm_worker, [pc |-> "recv", val |-> 0, idx |-> 0])
    /\ UNCHANGED <<pm_input, pm_num_threads, pm_pc, pm_input_vec, pm_idx, pm_s1,
                   pm_rx, pm_output_vec>>
    /\ UNCHANGED <<dbg_vars, wb_vars, rl_vars, st_vars, bk_vars, up_vars>>

\* All the workers are spawned: drop(tx).
PmDropTx ==
    /\ pm_pc = "spawn"
    /\ Len(pm_worker) = pm_num_threads
    /\ pm_pc' = "collect"
    /\ UNCHANGED <<pm_input, pm_num_threads, pm_input_vec, pm_idx, pm_s1, pm_worker,
                   pm_rx, pm_output_vec>>
    /\ UNCHANGED <<dbg_vars, wb_vars, rl_vars, st_vars, bk_vars, up_vars>>

\* `for (val, idx) in rx` receives a result: output_vec[idx] = val, which panics
\* for an index out of bounds. (Vec indices count from 0.)
PmCollect ==
    /\ pm_pc = "collect"
    /\ pm_rx # <<>>
    /\ LET val == Head(pm_rx)[1]
           idx == Head(pm_rx)[2]
       IN  IF idx < Len(pm_output_vec)
           THEN /\ pm_output_vec' = [pm_output_vec EXCEPT ![idx + 1] = val]
                /\ pm_pc' = pm_pc
           ELSE /\ pm_output_vec' = pm_output_vec
                /\ pm_pc' = "panicked"
    /\ pm_rx' = Tail(pm_rx)
    /\ UNCHANGED <<pm_input, pm_num_threads, pm_input_vec, pm_idx, pm_s1, pm_worker>>
    /\ UNCHANGED <<dbg_vars, wb_vars, rl_vars, st_vars, bk_vars, up_vars>>

\* rx is empty and every clone of tx dropped, its worker through: the for loop
\* ends and output_vec is returned.
PmReturn ==
    /\ pm_pc = "collect"
    /\ pm_rx = <<>>
    /\ \A w \in 1..Len(pm_worker) : pm_worker[w].pc \in {"exit", "panicked"}
    /\ pm_pc' = "done"
    /\ UNCHANGED <<pm_input, pm_num_threads, pm_input_vec, pm_idx, pm_s1, pm_worker,
                   pm_rx, pm_output_vec>>
    /\ UNCHANGED <<dbg_vars, wb_vars, rl_vars, st_vars, bk_vars, up_vars>>

\* Worker w: r1.recv() returns a message.
PmWorkerRecv(w) ==
    /\ w \in 1..Len(pm_worker)
    /\ pm_worker[w].pc = "recv"
    /\ pm_s1 # <<>>
    /\ pm_worker' = [pm_worker EXCEPT ![w] = [pc |-> "send", val |-> Head(pm_s1)[1],
                                              idx |-> Head(pm_s1)[2]]]
    /\ pm_s1' = Tail(pm_s1)
    /\ UNCHANGED <<pm_input, pm_num_threads, pm_pc, pm_input_vec, pm_idx, pm_rx,
                   pm_output_vec>>
    /\ UNCHANGED <<dbg_vars, wb_vars, rl_vars, st_vars, bk_vars, up_vars>>

\* Worker w: r1.recv() returns Err, the channel empty and s1 dropped (it was,
\* before any worker was spawned): the thread ends, dropping its tx.
PmWorkerExit(w) ==
    /\ w \in 1..Len(pm_worker)
    /\ pm_worker[w].pc = "recv"
    /\ pm_s1 = <<>>
    /\ pm_worker' = [pm_worker EXCEPT ![w] = [pc |-> "exit", val |-> 0, idx |-> 0]]
    /\ UNCHANGED <<pm_input, pm_num_threads, pm_pc, pm_input_vec, pm_idx, pm_s1, pm_rx,
                   pm_output_vec>>
    /\ UNCHANGED <<dbg_vars, wb_vars, rl_vars, st_vars, bk_vars, up_vars>>

\* Worker w: tx.send((f(val), idx)).unwrap(), which panics once rx is dropped.
PmWorkerSend(w) ==
    /\ w \in 1..Len(pm_worker)
    /\ pm_worker[w].pc = "send"
    /\ IF pm_pc \in {"done", "panicked"}
       THEN /\ pm_worker' = [pm_worker EXCEPT ![w] = [pc |-> "panicked", val |-> 0,
                                                      idx |-> 0]]
            /\ pm_rx' = pm_rx
       ELSE /\ pm_worker' = [pm_worker EXCEPT ![w] = [pc |-> "recv", val |-> 0, idx |-> 0]]
            /\ pm_rx' = Append(pm_rx, <<f(pm_worker[w].val), pm_worker[w].idx>>)
    /\ UNCHANGED <<pm_input, pm_num_threads, pm_pc, pm_input_vec, pm_idx, pm_s1,
                   pm_output_vec>>
    /\ UNCHANGED <<dbg_vars, wb_vars, rl_vars, st_vars, bk_vars, up_vars>>

PmNext ==
    \/ PmSend
    \/ PmDropS1
    \/ PmSpawn
    \/ PmDropTx
    \/ PmCollect
    \/ PmReturn
    \/ \E w \in 1..MaxThreads : PmWorkerRecv(w)
    \/ \E w \in 1..MaxThreads : PmWorkerExit(w)
    \/ \E w \in 1..MaxThreads : PmWorkerSend(w)

SpecPM == PmInit /\ [][PmNext]_vars

\* The operating system runs some thread that can run: a step is taken as long as
\* one is possible.
SpecPMFair == SpecPM /\ WF_vars(PmNext)

(***************************************************************************)
(* The properties checked.                                                 *)
(***************************************************************************)
IsCommand(log, name) ==
    Len(log) >= 1 /\ log[1].op = "command" /\ log[1].txt = name

HasPrint(log, txt) ==
    \E i \in 1..Len(log) : log[i].op = "print" /\ log[i].txt = txt

\* The ptrace and waitpid calls of the log.
TraceOps == {"getregs", "setregs", "write_byte", "read", "step", "cont", "wait"}

WordOf(mem, addr) == [i \in 0..7 |-> mem[align_addr_to_word(addr) + i]]

\* C1: write_byte(addr, 0xCC) followed by write_byte(addr, b), b the byte the first
\* call returned, leaves the aligned 8-byte word that contains addr exactly as it
\* was before the first call, for aligned and unaligned addr and every value of
\* the patched byte.
C1_PatchRestoreRoundTrip ==
    wb_pc = "restored" => WordOf(wb_proc.mem, wb_addr) = WordOf(wb_orig, wb_addr)

\* C1's case: an unaligned address whose byte was not the trap byte has been
\* patched and restored.
C1_Witness ==
    /\ wb_pc = "restored"
    /\ wb_addr = 29
    /\ wb_orig[29] = 85
    /\ wb_saved = 85
    /\ wb_proc.mem[29] = 85

\* C2: whenever the wait after ptrace::cont reports the stop at the trap of an
\* installed breakpoint at A (SIGTRAP, rip = A + 1), the address whose source
\* location continue_proc looks up and prints is A.
C2_ReportedPcIsBreakpoint ==
    \A i \in 2..Len(ops) :
        ( /\ ops[i].op = "wait" /\ ops[i - 1].op = "cont"
          /\ ops[i].txt = "Stopped" /\ ops[i].sig = "SIGTRAP"
          /\ IsSome(inferior)
          /\ (ops[i].a - 1) \in DOMAIN Unwrap(inferior).break_points )
        => \A j \in i..Len(ops) :
               ops[j].op = "get_line_from_addr" => ops[j].a = ops[i].a - 1

\* C3: between commands, the orig_byte cached for every breakpoint of a live
\* process is the byte the target had at that address before any trap was
\* written there.
C3_CachedOriginalByte ==
    (cmd = "prompt" /\ IsSome(inferior) /\ ~child.gone)
    => \A a \in DOMAIN Unwrap(inferior).break_points :
           Unwrap(inferior).break_points[a] = TargetImage[a]

\* C4: when check_stop_at_b single-steps a process stopped at breakpoint address
\* A, the byte at A at that moment is the target's original byte, and if the step
\* ends in a stop the trap byte is written back at A.
C4_StepOverExecutesOriginal ==
    \A i \in 1..Len(ops) :
        ops[i].op = "step"
        => /\ ops[i].v = TargetImage[ops[i].a]
           /\ (ops[i + 1].txt = "Stopped"
               => \E j \in (i + 1)..Len(ops) :
                      /\ ops[j].op = "write_byte" /\ ops[j].a = ops[i].a
                      /\ ops[j].v = trap_byte /\ ops[j].ok)

\* C5: of the processes self.inferior has referred to, at most one is alive, and it
\* is the one self.inferior refers to; and a Run issued while self.inferior is
\* Some kills and reaps that process before it spawns the new one.
C5_LifecycleExclusive ==
    /\ [](/\ Cardinality(live \cap held) <= 1
          /\ \A pid \in live \cap held :
                 IsSome(inferior) /\ Unwrap(inferior).pid = pid)
    /\ [][(IsSome(inferior) /\ IsCommand(ops', "Run"))
          => LET old == Unwrap(inferior).pid
             IN  /\ old \notin live'
                 /\ \E k, r, n \in 1..Len(ops') :
                        /\ k < r /\ r < n
                        /\ ops'[k].op = "kill" /\ ops'[k].a = old
                        /\ ops'[r].op = "reap" /\ ops'[r].a = old
                        /\ ops'[n].op = "spawn"]_vars

\* C5's case: Run was issued while a process was stopped under the debugger; that
\* process was killed and the new one is the only one alive.
C5_Witness ==
    /\ IsCommand(ops, "Run")
    /\ \E k \in 1..Len(ops) : ops[k].op = "kill" /\ ops[k].a = 1 /\ ops[k].ok
    /\ \E n \in 1..Len(ops) : ops[n].op = "spawn" /\ ops[n].txt = "SIGTRAP"
    /\ IsSome(inferior) /\ Unwrap(inferior).pid = 2
    /\ ~child.gone
    /\ live = {2}

\* C6: a command in which a ptrace or waitpid call failed does not panic: the
\* command loop is back at the prompt.
C6_NoCrashOnTraceFailure ==
    (\E i \in 1..Len(ops) : ops[i].op \in TraceOps /\ ~ops[i].ok)
    => cmd = "prompt"

\* C7: the exit code printed is the one waitpid reported, and a Continue issued
\* after the process was reported exited prints the no-process error and returns
\* to the prompt.
C7_ExitedThenNoProcess ==
    /\ [](\A i \in 2..Len(ops) :
              (ops[i].op = "print" /\ ops[i].txt = "Child exited")
              => (ops[i - 1].op = "wait" /\ ops[i - 1].v = ops[i].v))
    /\ [][(cmd = "prompt" /\ HasPrint(ops, "Child exited") /\ IsCommand(ops', "Continue"))
          => (cmd' = "prompt" /\ HasPrint(ops', "Error: no inferior process running"))]_vars

\* C8: a Break whose argument resolves to no address leaves the table as it was
\* and the command loop at the prompt.
C8_UnresolvedBreakIsReported ==
    [][(IsCommand(ops', "Break") /\ ~HasPrint(ops', "Set breakpoint"))
       => (cmd' = "prompt" /\ break_points' = break_points)]_vars

\* C9: after a Run in which Inferior::new returned None, the error is printed and
\* self.inferior is None.
C9_FailedRunLeavesNoProcess ==
    ( /\ IsCommand(ops, "Run")
      /\ \E n \in 1..Len(ops) : ops[n].op = "spawn" /\ ops[n].txt # "SIGTRAP" )
    => (inferior = None /\ HasPrint(ops, "Error starting subprocess"))

\* C10: when Continue returns with the process stopped, every address of the
\* Breakpoint Table, also one added while the process was stopped, holds the trap
\* byte in the process's memory, or is where the process has just hit its trap.
C10_BreakWhileStoppedTakesEffect ==
    (IsCommand(ops, "Continue") /\ cmd = "prompt" /\ IsSome(inferior) /\ ~child.gone)
    => \A i \in 1..Len(break_points) :
           \/ child.mem[break_points[i].addr] = trap_byte
           \/ child.rip = break_points[i].addr

\* The frame chain of process p as its stack holds it: the functions from the one
\* p.rip is in up to main, each frame's return address at rbp + 8 and its caller's
\* frame pointer at rbp; the empty sequence when the chain does not lead to main
\* within n frames (a frame of no known function, unreadable, or a cycle).
RECURSIVE FrameChain(_, _, _, _)
FrameChain(p, rip, rbp, n) ==
    LET function == get_function_from_addr(rip)
    IN  IF n = 0 \/ ~IsSome(function) THEN <<>>
        ELSE IF Unwrap(function) = "main" THEN <<"main">>
        ELSE IF ~Mapped(p, rbp) \/ ~Mapped(p, rbp + 8) THEN <<>>
        ELSE LET rest == FrameChain(p, AsUsize(ptrace_read(p, rbp + 8)),
                                    AsUsize(ptrace_read(p, rbp)), n - 1)
             IN  IF rest = <<>> THEN <<>> ELSE <<Unwrap(function)>> \o rest

\* The deepest call chain the target has: foo called from main.
MaxDepth == 2

\* The functions print_backtrace printed, in order.
PrintedFunctions(log) ==
    LET frames == SelectSeq(log, LAMBDA e : e.op = "print_function")
    IN  [i \in 1..Len(frames) |-> frames[i].txt]

\* C11: a Backtrace of a stopped process whose frame chain leads to main returns to
\* the prompt with no read failed, having printed one function per frame of the
\* chain, in the chain's order, the last of them main.
C11_WalkEndsAtMain ==
    ( /\ IsCommand(ops, "Backtrace") /\ IsSome(inferior) /\ ~child.gone
      /\ FrameChain(child, child.rip, child.rbp, MaxDepth) # <<>> )
    => /\ cmd = "prompt"
       /\ PrintedFunctions(ops) = FrameChain(child, child.rip, child.rbp, MaxDepth)
       /\ PrintedFunctions(ops)[Len(PrintedFunctions(ops))] = "main"
       /\ \A i \in 1..Len(ops) : ops[i].op = "read" => ops[i].ok

\* C11's case: Backtrace of a process stopped in foo's body, its frame set up:
\* foo, then main.
C11_Witness ==
    /\ IsCommand(ops, "Backtrace") /\ cmd = "prompt"
    /\ IsSome(inferior) /\ ~child.gone
    /\ child.rip = 28 /\ child.rbp = 64
    /\ PrintedFunctions(ops) = <<"foo", "main">>

\* C12: every Backtrace ends: whatever the frame chain, the walk stops and the
\* command loop goes on.
C12_BoundedStackWalk ==
    IsCommand(ops, "Backtrace") => cmd # "hung"

\* C13: a Continue issued while self.inferior is None prints the no-process error
\* and returns to the prompt, having made no ptrace call, with self.inferior still
\* None and the Breakpoint Table, the process and the pids alive as they were.
C13_ContinueWithoutProcess ==
    [][(cmd = "prompt" /\ inferior = None /\ IsCommand(ops', "Continue"))
       => /\ cmd' = "prompt"
          /\ HasPrint(ops', "Error: no inferior process running")
          /\ \A i \in 1..Len(ops') : ops'[i].op \notin TraceOps \cup {"panic"}
          /\ inferior' = None
          /\ break_points' = break_points
          /\ child' = child /\ live' = live]_vars

\* C13's case: Continue has been issued with a breakpoint set and no Run before.
C13_Witness ==
    /\ IsCommand(ops, "Continue") /\ cmd = "prompt"
    /\ inferior = None /\ held = {}
    /\ Len(break_points) = 1
    /\ HasPrint(ops, "Error: no inferior process running")

\* C14: a Backtrace issued while self.inferior is None prints the no-process
\* error, and a Backtrace in which a read of the stack failed prints an error.
C14_BacktraceErrorsReported ==
    IsCommand(ops, "Backtrace")
    => /\ (inferior = None => HasPrint(ops, "Error: no inferior process running"))
       /\ ((\E i \in 1..Len(ops) : ops[i].op = "read" /\ ~ops[i].ok)
           => \E j \in 1..Len(ops) : ops[j].op = "print")

\* The calls that resume the process.
ResumeOps == {"step", "cont"}

\* C15: in every Run whose spawn succeeded, each address of the Breakpoint Table
\* gets the trap byte written into the new process before the first ptrace::step
\* or ptrace::cont, and nothing else is written there before that resume.
C15_TableInstalledAtRun ==
    \A n \in 1..Len(ops) :
        (IsCommand(ops, "Run") /\ ops[n].op = "spawn" /\ ops[n].txt = "SIGTRAP")
        => \A i \in 1..Len(break_points) :
               \E j \in (n + 1)..Len(ops) :
                   /\ ops[j].op = "write_byte" /\ ops[j].ok
                   /\ ops[j].a = break_points[i].addr /\ ops[j].v = trap_byte
                   /\ \A k \in (n + 1)..j : ops[k].op \notin ResumeOps
                   /\ \A k \in (j + 1)..Len(ops) :
                          (ops[k].op = "write_byte" /\ ops[k].a = ops[j].a
                           /\ ops[k].v # trap_byte)
                          => \E r \in (j + 1)..(k - 1) : ops[r].op \in ResumeOps

\* C15's case: the second Run, the first process killed while it was alive, with
\* breakpoints at main and at foo in the table.
C15_Witness ==
    /\ IsCommand(ops, "Run")
    /\ \E k \in 1..Len(ops) : ops[k].op = "kill" /\ ops[k].a = 1 /\ ops[k].ok
    /\ \E n \in 1..Len(ops) : ops[n].op = "spawn" /\ ops[n].txt = "SIGTRAP" /\ ops[n].a = 2
    /\ {break_points[i].addr : i \in 1..Len(break_points)} = {17, 24}
    /\ \E j \in 1..Len(ops) : ops[j].op = "write_byte" /\ ops[j].a = 24 /\ ops[j].ok
    /\ \E j \in 1..Len(ops) : ops[j].op = "cont" /\ ops[j].ok

\* C16: Inferior::new returns an Inferior exactly when the first wait reports a
\* stop by SIGTRAP: in a Run, the Run arm goes on to continue_proc on the new
\* process and prints no error exactly in that case, and self.inferior is then
\* the new process.
C16_SpawnSuccessIffTrap ==
    \A n \in 1..Len(ops) :
        (IsCommand(ops, "Run") /\ ops[n].op = "spawn")
        => /\ (ops[n].txt = "SIGTRAP") <=> ~HasPrint(ops, "Error starting subprocess")
           /\ (ops[n].txt = "SIGTRAP")
              <=> (\E j \in (n + 1)..Len(ops) : ops[j].op = "getregs")
           /\ (ops[n].txt = "SIGTRAP")
              => (IsSome(inferior) /\ Unwrap(inferior).pid = ops[n].a)

\* C16's case: a Run whose child was first stopped by SIGSTOP.
C16_Witness ==
    /\ IsCommand(ops, "Run")
    /\ \E n \in 1..Len(ops) : ops[n].op = "spawn" /\ ops[n].txt = "SIGSTOP"
    /\ HasPrint(ops, "Error starting subprocess")
    /\ inferior = None

\* C17: Quit ends the command loop, after killing and reaping the process of
\* self.inferior if there is one (alive or not), and no command runs once the
\* loop has ended by Quit.
C17_QuitIsTerminal ==
    /\ [](IsCommand(ops, "Quit")
          => /\ cmd = "quit"
             /\ IsSome(inferior)
                => /\ child.gone
                   /\ Unwrap(inferior).pid \notin live
                   /\ \E k, r \in 1..Len(ops) :
                          /\ k < r
                          /\ ops[k].op = "kill" /\ ops[k].a = Unwrap(inferior).pid
                          /\ ops[r].op = "reap" /\ ops[r].a = Unwrap(inferior).pid)
    /\ [](cmd = "quit" => IsCommand(ops, "Quit"))
    /\ [][cmd # "quit"]_vars

\* C17's case: Quit issued while the process was stopped under the debugger.
C17_Witness ==
    /\ cmd = "quit"
    /\ IsSome(inferior)
    /\ \E k \in 1..Len(ops) : ops[k].op = "kill" /\ ops[k].ok
    /\ live = {}

\* C19: when continue_proc returns after the wait reported the stop at the trap of
\* breakpoint A (SIGTRAP, rip = A + 1), the process's rip is A and the byte at A
\* is the orig_byte cached for A, which is not the trap byte.
C19_StateAfterBreakpointHit ==
    \A i \in 2..Len(ops) :
        ( /\ cmd = "prompt" /\ IsSome(inferior)
          /\ ops[i].op = "wait" /\ ops[i - 1].op = "cont"
          /\ ops[i].txt = "Stopped" /\ ops[i].sig = "SIGTRAP"
          /\ (ops[i].a - 1) \in DOMAIN Unwrap(inferior).break_points )
        => LET A == ops[i].a - 1
           IN  /\ child.rip = A
               /\ child.mem[A] = Unwrap(inferior).break_points[A]
               /\ child.mem[A] # trap_byte

\* The ptrace calls that read or write the process's registers or memory.
RegMemOps == {"getregs", "setregs", "write_byte", "read"}

\* C20: within a command no register or memory access follows a wait that
\* reported Exited or Signaled, and a Continue or Backtrace issued while the
\* process of self.inferior is gone makes no register or memory access.
C20_NoOperationOnDeadProcess ==
    /\ [](\A i \in 1..Len(ops) :
              (ops[i].op = "wait" /\ ops[i].txt \in {"Exited", "Signaled"})
              => \A j \in (i + 1)..Len(ops) : ops[j].op \notin RegMemOps)
    /\ [][(/\ IsSome(inferior) /\ child.gone
           /\ (IsCommand(ops', "Continue") \/ IsCommand(ops', "Backtrace")))
          => \A j \in 1..Len(ops') : ops'[j].op \notin RegMemOps]_vars

\* The requests of client ip that were forwarded upstream and whose check began
\* in the window of length `window` that starts at time t0.
AcceptedIn(ip, t0) ==
    {i \in 1..Len(rl_log) :
        /\ rl_log[i].ip = ip /\ rl_log[i].ok
        /\ t0 <= rl_log[i].now /\ rl_log[i].now < t0 + window}

\* C18: with max_requests_per_minute = N > 0, of the requests of one client made
\* within any one window of 60 seconds at most N are forwarded upstream, however
\* the connections' tasks interleave; with N = 0 no request is answered 429.
C18_RateLimit ==
    /\ rl_max = 0 => \A i \in 1..Len(rl_log) : rl_log[i].ok
    /\ rl_max > 0 =>
          \A ip \in Ips : \A t0 \in 0..MaxTime :
              Cardinality(AcceptedIn(ip, t0)) <= rl_max

\* C21: write_byte(addr, val) works on the word at addr with its low three bits
\* cleared, returns the byte that was at addr, and leaves val at addr and every
\* other byte of memory, the other seven of that word among them, as it was:
\* after the patch (val = 0xcc) and after the restore (val = the byte saved).
C21_SingleBytePatchFrame ==
    /\ align_addr_to_word(wb_addr) % 8 = 0
    /\ wb_addr - align_addr_to_word(wb_addr) \in 0..7
    /\ wb_pc = "patched" =>
          /\ wb_saved = wb_orig[wb_addr]
          /\ \A a \in DOMAIN wb_proc.mem :
                 wb_proc.mem[a] = IF a = wb_addr THEN trap_byte ELSE wb_orig[a]
    /\ wb_pc = "restored" =>
          \A a \in DOMAIN wb_proc.mem :
              wb_proc.mem[a] = IF a = wb_addr THEN wb_saved ELSE wb_orig[a]

\* C21's case: the byte 0x55 at the unaligned address 29 has been patched, its
\* neighbours all 0xff.
C21_Witness ==
    /\ wb_pc = "patched"
    /\ wb_addr = 29 /\ wb_orig[29] = 85 /\ wb_orig[28] = 255 /\ wb_orig[30] = 255
    /\ wb_saved = 85
    /\ wb_proc.mem[29] = trap_byte /\ wb_proc.mem[28] = 255 /\ wb_proc.mem[30] = 255

\* The address step_to_next_line puts its transient trap at when called on
\* process pre, if it gets that far.
StepTarget(pre) ==
    IF pre.gone \/ ~IsSome(get_line_from_addr(pre.rip)) THEN None
    ELSE get_addr_for_line(Unwrap(get_line_from_addr(pre.rip)) + 1)

\* The resume of the log ended in a stop by sig reported at address a.
ResumeStoppedAt(log, sig, a) ==
    \E i \in 1..(Len(log) - 1) :
        /\ log[i].op = "cont"
        /\ log[i + 1].op = "wait" /\ log[i + 1].txt = "Stopped"
        /\ log[i + 1].sig = sig /\ log[i + 1].a = a

\* C22: when step_to_next_line resumes the process and it stops on the transient
\* trap at the next line's address N, N not being a user breakpoint, then on return
\* the program counter is N, not N + 1, and the byte at N is the original one.
C22_StepStopsAtLine ==
    (/\ cmd = "step" /\ IsCommand(ops, "Next")
     /\ IsSome(StepTarget(st_pre))
     /\ Unwrap(StepTarget(st_pre)) \notin DOMAIN Unwrap(inferior).break_points
     /\ ResumeStoppedAt(ops, "SIGTRAP", Unwrap(StepTarget(st_pre)) + 1))
    => /\ child.rip = Unwrap(StepTarget(st_pre))
       /\ child.mem[Unwrap(StepTarget(st_pre))] = st_pre.mem[Unwrap(StepTarget(st_pre))]

\* The calls that write memory or registers or resume the process.
EffectOps == {"write_byte", "setregs", "cont", "step"}

\* C23: after step_to_next_line returns with the process alive, the byte at the
\* next line's address is the byte that was there before the call, whatever stop
\* ended the resume; and when no next-line address resolves, the call writes no
\* memory, writes no register and resumes nothing.
C23_NoTransientTrapLeft ==
    IsCommand(ops, "Next") =>
        /\ (cmd = "step" /\ ~child.gone /\ IsSome(StepTarget(st_pre)))
              => child.mem[Unwrap(StepTarget(st_pre))]
                     = st_pre.mem[Unwrap(StepTarget(st_pre))]
        /\ ~IsSome(StepTarget(st_pre))
              => /\ \A i \in 1..Len(ops) : ops[i].op \notin EffectOps
                 /\ child = st_pre

\* A step from main's first line, stopped by the transient trap at line 4 (21):
\* the call instruction's first byte is back.
C23_Witness ==
    /\ cmd = "step" /\ IsCommand(ops, "Next")
    /\ st_pre.rip = 17 /\ st_pre.mem[21] = 232
    /\ StepTarget(st_pre) = Some(21)
    /\ \E i \in 1..Len(ops) :
          ops[i].op = "write_byte" /\ ops[i].a = 21 /\ ops[i].v = trap_byte /\ ops[i].ok
    /\ ResumeStoppedAt(ops, "SIGTRAP", 22)
    /\ ~child.gone /\ child.mem[21] = 232

ResolverOps == {"parse_address", "get_addr_for_line", "get_addr_for_function"}

Digits == {"0", "1", "2", "3", "4", "5", "6", "7", "8", "9"}

\* The resolution the syntax of target selects. An unsigned integer is what
\* str::parse::<usize> takes: digits, with an optional '+' before them.
ExpectedResolver(target) ==
    LET digits == IF Head(target) = "+" THEN Tail(target) ELSE target
    IN  IF Head(target) = "*" THEN "parse_address"
        ELSE IF digits # <<>> /\ \A i \in 1..Len(digits) : digits[i] \in Digits
        THEN "get_addr_for_line"
        ELSE "get_addr_for_function"

\* What the targets of BreakSpecs resolve to in the target program.
ExpectedAddress(target) ==
    CASE target \in {<<"m", "a", "i", "n">>, <<"*", "0", "X", "1", "1">>} -> Some(17)
      [] target \in {<<"f", "o", "o">>, <<"*", "0", "x", "1", "8">>, <<"*", "1", "8">>,
                     <<"8">>} -> Some(24)
      [] OTHER -> None

\* C24: a target starting with '*' is resolved only as an address, otherwise one
\* that parses as an unsigned integer only as a line number, otherwise only as a
\* function name: exactly one resolver is called; and the entry appended has the
\* address resolved, at the index that was the table's size.
C24_BreakPrecedence ==
    cmd \in {"broke", "panicked"} =>
        LET calls == {i \in 1..Len(ops) : ops[i].op \in ResolverOps}
        IN  /\ Cardinality(calls) = 1
            /\ \A i \in calls :
                  /\ ops[i].op = ExpectedResolver(bk_target)
                  /\ bk_target \in BreakSpecs =>
                        /\ ops[i].ok = IsSome(ExpectedAddress(bk_target))
                        /\ ops[i].ok => ops[i].v = Unwrap(ExpectedAddress(bk_target))
                  /\ ops[i].ok =>
                        /\ cmd = "broke"
                        /\ break_points =
                              Append(bk_before, [addr |-> ops[i].v, orig_byte |-> trap_byte])
                        /\ \E j \in 1..Len(ops) :
                              /\ ops[j].op = "print" /\ ops[j].txt = "Set breakpoint"
                              /\ ops[j].a = ops[i].v /\ ops[j].v = Len(bk_before)

\* Break *18 on a table of two entries: resolved as the address 0x18 and not as
\* line 18, appended at index 2.
C24_Witness ==
    /\ cmd = "broke"
    /\ bk_target = <<"*", "1", "8">>
    /\ Len(bk_before) = 2
    /\ Len(break_points) = 3 /\ break_points[3].addr = 24
    /\ \E i \in 1..Len(ops) : ops[i].op = "parse_address" /\ ops[i].v = 24

\* C25: no two entries of the Breakpoint Table have the same address, whatever
\* Break commands were given; a Break of an address already in the table reports
\* the index of the entry there is.
C25_UniqueAddresses ==
    /\ \A i, j \in 1..Len(break_points) :
          break_points[i].addr = break_points[j].addr => i = j
    /\ (IsCommand(ops, "Break") /\ cmd = "prompt") =>
          \A k \in 1..Len(ops) :
              (ops[k].op = "print" /\ ops[k].txt = "Set breakpoint") =>
                  \A i \in 1..Len(break_points) :
                      break_points[i].addr = ops[k].a => ops[k].v <= i

\* The frame pointer and the program counter of the k-th step of a stack walk of
\* process p by the saved-frame-pointer convention.
RECURSIVE WalkFp(_, _)
WalkFp(p, k) ==
    IF k = 1 THEN p.rbp ELSE AsUsize(ptrace_read(p, WalkFp(p, k - 1)))

WalkPc(p, k) ==
    IF k = 1 THEN p.rip ELSE AsUsize(ptrace_read(p, WalkFp(p, k - 1) + 8))

\* The number of memory reads in the log before its i-th entry.
ReadsBefore(log, i) ==
    Cardinality({j \in 1..(i - 1) : log[j].op = "read"})

C27_RewindOnlyOnTrap ==
    \A i \in 1..(Len(ops) - 1) :
        (/\ ops[i].op = "cont"
         /\ ops[i + 1].op = "wait" /\ ops[i + 1].txt = "Stopped"
         /\ ops[i + 1].sig # "SIGTRAP")
        => /\ \A j \in (i + 2)..Len(ops) : ops[j].op \notin {"setregs", "write_byte"}
           /\ ~child.gone => child.rip = ops[i + 1].a

\* C28: when connect_to_upstream fails to connect to the upstream it picked, the
\* entry it removes from the live list is that address, and the index it removes
\* at is within the list, whatever other failovers and health checks did to the
\* list between the pick and the removal.
C28_FailoverRemovesFailed ==
    \A i \in 1..Len(up_log) :
        /\ up_log[i].removed # "panic"
        /\ up_log[i].removed = up_log[i].ip

\* C29: for every input vector and every num_threads >= 1, however the worker
\* threads interleave, parallel_map returns, and the vector it returns has the
\* input's length with output[i] = f(input[i]) at every index i.
C29_ParallelMap ==
    /\ <>(pm_pc = "done")
    /\ [](pm_pc = "done" =>
             /\ Len(pm_output_vec) = Len(pm_input)
             /\ \A i \in 1..Len(pm_input) : pm_output_vec[i] = f(pm_input[i]))

\* Three elements mapped by two threads, both through, every result in its place.
C29_Witness ==
    /\ pm_pc = "done"
    /\ pm_input = <<2, 3, 3>> /\ pm_num_threads = 2
    /\ pm_output_vec = <<5, 10, 10>>
    /\ Len(pm_worker) = 2 /\ \A w \in 1..2 : pm_worker[w].pc = "exit"

====
